---- MODULE Spec2Model ----
(***************************************************************************)
(* The SWC parser of swcmorphologyparser (SwcParser, TreeNodeCollection,   *)
(* TreeNode) and the Morphology model of morphologycorejs (Morphology,     *)
(* Section, Soma), as one state machine: a SwcParser instance on which     *)
(* parse() is called with texts drawn from a bounded family.               *)
(*                                                                         *)
(* Encoding of JavaScript values.  A value that may be null or undefined   *)
(* is a sequence: <<>> stands for null/undefined, <<v>> for the value v.   *)
(* Object references to TreeNode and Section instances are the ids the     *)
(* objects carry; the texts of the family give every record its own id, so *)
(* an id names one object.                                                 *)
(***************************************************************************)
EXTENDS Integers, Sequences, FiniteSets, TLC

VARIABLES
  text,              \* the argument of the running/last parse call: a sequence of lines
  pc,                \* position inside parse(): idle, collection, search, stack, objects, done, failed, hang
  rawPoints,         \* SwcParser.parse: the array returned by extractPoints
  nodes,             \* TreeNodeCollection._nodes: id -> TreeNode
  rawSoma,           \* TreeNodeCollection._rawSoma
  rawSections,       \* TreeNodeCollection._rawSections
  firstValidNode,    \* _buildSections: firstValidNode
  stack,             \* _buildSections: the work stack
  sections,          \* _buildSections: the local array `sections`
  currentSectionId,  \* _buildSections: the section id counter
  rawMorphology,     \* SwcParser._rawMorphology
  morphology,        \* SwcParser._morphology
  calls,             \* the number of parse calls made on the SwcParser instance
  hadMorphology,     \* whether getMorphology() was not null when the running/last parse call began
  model,             \* a Morphology instance used through its own methods
  born,              \* model: id -> the buildFromRawMorphology call that made the Section stored under id
  builds,            \* model: the number of buildFromRawMorphology calls made on it
  returned           \* model: the last method call and what it returned

\* the Morphology instance used through its own methods
apiVars == <<model, born, builds, returned>>

vars == <<text, pc, rawPoints, nodes, rawSoma, rawSections, firstValidNode,
          stack, sections, currentSectionId, rawMorphology, morphology, calls,
          hadMorphology, model, born, builds, returned>>

-----------------------------------------------------------------------------
(* Bounds of the model *)

\* the longest text, in lines
MaxLines == 4

\* the longest text of a parse call made on an instance that has already parsed
MaxReparseLines == 1

\* the length of the long texts (soma and axon points only)
LongLines == 5

\* the number of parse calls on one SwcParser instance
MaxCalls == 2

\* the length of the texts of soma and axon points parsed on an instance that
\* has already parsed
AgainLines == 2

\* the longest text whose raw morphology is handed to buildFromRawMorphology
\* on the Morphology instance used through its own methods
MaxApiLines == 4

\* the number of buildFromRawMorphology calls on that instance
MaxBuilds == 2

\* the longest text with a record that names itself as its parent
MaxSelfParentLines == 2

\* the number of sections after which the work-stack loop is not followed
\* further: more than a text without such a record gives
MaxSections == 6

-----------------------------------------------------------------------------
(* JavaScript values *)

Null == <<>>
Undefined == <<>>
Some(v) == <<v>>

\* obj[key]: undefined when the object has no such property
Get(obj, key) == IF key \in DOMAIN obj THEN Some(obj[key]) ELSE Undefined

EmptyObject == [k \in {} |-> Null]

\* obj[key] = value
Put(obj, key, value) == [k \in (DOMAIN obj) \cup {key} |-> IF k = key THEN value ELSE obj[k]]

RECURSIVE SortedSeq(_)
SortedSeq(S) ==
  IF S = {} THEN <<>>
  ELSE LET m == CHOOSE x \in S : \A y \in S : x <= y
       IN <<m>> \o SortedSeq(S \ {m})

\* Object.keys / Object.values order of an object whose keys are array indices
\* (non-negative integers): ascending numeric order, whatever the insertion order
ObjectKeys(obj) == SortedSeq(DOMAIN obj)

Last(s) == s[Len(s)]
Front(s) == SubSeq(s, 1, Len(s) - 1)
SeqToSet(s) == {s[i] : i \in 1..Len(s)}

RECURSIVE MaxOf(_)
\* Math.max(...values); -Infinity of an empty list is never asked for
MaxOf(s) ==
  IF Len(s) = 1 THEN s[1]
  ELSE LET m == MaxOf(Front(s)) IN IF Last(s) > m THEN Last(s) ELSE m

-----------------------------------------------------------------------------
(* Constants.js and the type taxonomy *)

\* the object named SWC_TYPES inside Constants.js
SWC_TYPES_TABLE ==
  [UNDEFINED |-> 0, SOMA |-> 1, AXON |-> 2, BASAL_DENDRITE |-> 3,
   APICAL_DENDRITE |-> 4, CUSTOM |-> 5]

\* What `import SWC_TYPES from './Constants'` binds in TreeNode.js and
\* TreeNodeCollection.js: the default export of Constants.js, which is the
\* object ({ SWC_TYPES }) that holds the table under the key SWC_TYPES.
SWC_TYPES == [SWC_TYPES |-> SWC_TYPES_TABLE]

\* the type codes of the table that the texts use
TYPE_SOMA == 1
TYPE_UNDEFINED == 0
TYPE_AXON == 2
TypeCodes == {TYPE_UNDEFINED, TYPE_SOMA, TYPE_AXON}

-----------------------------------------------------------------------------
(* The texts handed to parse *)

\* parentId of a record without parent
NO_PARENT == -1

\* A data line "id type x y z radius parentId" (at least 7 tokens).  The
\* position is (id, 0, 0), so that every record has its own position.
DataLine(id, type, radius, parent) ==
  [kind |-> "data", id |-> id, type |-> type, position |-> <<id, 0, 0>>,
   radius |-> radius, parentId |-> parent]

\* a non-blank line of fewer than 7 tokens
ShortLine == [kind |-> "short"]
\* a line of white space only
BlankLine == [kind |-> "blank"]

\* the radii of the n records of a text: 5, but for at most one record of radius 0
RadiusTables(n) == {[k \in 1..n |-> IF k = z THEN 0 ELSE 5] : z \in 0..n}

IdOrders == {"asc", "desc"}

\* the id of the record on line k of n: ascending from 0, or descending to 0
IdOf(order, k, n) == IF order = "asc" THEN k - 1 ELSE n - k

\* the parentId that names line j (0: no parent)
ParentIdOf(order, j, n) == IF j = 0 THEN NO_PARENT ELSE IdOf(order, j, n)

\* Tree texts: data lines only, in valid order (the parent of every record
\* is -1 or the id of an earlier line).  par[k] is the line of the parent.
ValidParents(n) == {par \in [1..n -> 0..(n - 1)] : \A k \in 1..n : par[k] < k}

TreeText(order, n, ty, rad, par) ==
  [k \in 1..n |-> DataLine(IdOf(order, k, n), ty[k], rad[k], ParentIdOf(order, par[k], n))]

\* Sloppy texts: blank and short lines anywhere, and parents that come later
\* in the text than their children
SloppyChoices(n) ==
  {[kind |-> "short", type |-> 0, par |-> 0], [kind |-> "blank", type |-> 0, par |-> 0]}
  \cup [kind : {"data"}, type : {TYPE_AXON}, par : 0..n]

SloppyLines(n) == {c \in [1..n -> SloppyChoices(n)] : \A k \in 1..n : c[k].par # k}

\* Long texts: tree texts of LongLines lines, of soma and axon points only,
\* with ascending ids and radius 5
LongText(ty, par) ==
  [k \in 1..LongLines |-> DataLine(k - 1, ty[k], 5, ParentIdOf("asc", par[k], LongLines))]

SloppyText(n, c) ==
  [k \in 1..n |->
     IF c[k].kind = "data"
       THEN DataLine(k - 1, c[k].type, 5, ParentIdOf("asc", c[k].par, n))
       ELSE [kind |-> c[k].kind]]

\* Texts with a record whose parentId is its own id; the other records name
\* any line, or none, as their parent
SelfParents(n) == {par \in [1..n -> 0..n] : \E k \in 1..n : par[k] = k}

SelfParentText(n, ty, par) ==
  [k \in 1..n |-> DataLine(k - 1, ty[k], 5, ParentIdOf("asc", par[k], n))]

-----------------------------------------------------------------------------
(* SwcParser.extractPoints *)

IsBlank(l) == l.kind = "blank"

RECURSIVE DropLeadingBlank(_)
DropLeadingBlank(t) ==
  IF t # <<>> /\ IsBlank(t[1]) THEN DropLeadingBlank(Tail(t)) ELSE t

RECURSIVE DropTrailingBlank(_)
DropTrailingBlank(t) ==
  IF t # <<>> /\ IsBlank(Last(t)) THEN DropTrailingBlank(Front(t)) ELSE t

\* String.prototype.trim on the whole text: the blank lines at both ends go
Trim(t) == DropTrailingBlank(DropLeadingBlank(t))

RECURSIVE CollapseBlank(_)
\* .replace(/^\s*$/mg, ''): \s* also matches line ends, so a run of blank
\* lines between two other lines is cut down to one empty line, which stays
CollapseBlank(t) ==
  IF Len(t) < 2 THEN t
  ELSE IF IsBlank(t[1]) /\ IsBlank(t[2]) THEN CollapseBlank(Tail(t))
  ELSE <<t[1]>> \o CollapseBlank(Tail(t))

\* result.split('\n'): the empty text still gives one (empty) line
SplitLines(t) == IF t = <<>> THEN <<BlankLine>> ELSE t

\* the row of a line has at least 7 tokens
RowAccepted(l) == l.kind = "data"

\* the 7 parsed fields of an accepted row
PointOf(l) ==
  [id |-> l.id, type |-> l.type, position |-> l.position, radius |-> l.radius,
   parentId |-> l.parentId]

\* swcPoints[i] = [...] is executed for the accepted rows only, under the
\* index i of the line: the array is as long as the last accepted line, and
\* the dropped lines before it are holes (undefined)
PointsOfLines(lines) ==
  LET accepted == {i \in 1..Len(lines) : RowAccepted(lines[i])}
      len == IF accepted = {} THEN 0 ELSE CHOOSE m \in accepted : \A i \in accepted : i <= m
  IN [i \in 1..len |-> IF RowAccepted(lines[i]) THEN Some(PointOf(lines[i])) ELSE Undefined]

extractPoints(swcStr) == PointsOfLines(SplitLines(CollapseBlank(Trim(swcStr))))

-----------------------------------------------------------------------------
(* TreeNode *)

\* new TreeNode(id, type, x, y, z, r)
NewTreeNode(p) ==
  [id |-> p.id, type |-> p.type, position |-> p.position, radius |-> p.radius,
   parent |-> Null, children |-> <<>>, hasSomaChildren |-> FALSE]

\* the soma test with the table itself in the place of the imported binding
isSomaByTable(type) == Some(type) = Get(SWC_TYPES_TABLE, "SOMA")

\* this._type === SWC_TYPES.SOMA, with SWC_TYPES the imported binding
isSoma(type) == Some(type) = Get(SWC_TYPES, "SOMA")

\* doesAlreadyHaveChild: a child with the same id is in the list
doesAlreadyHaveChild(node, cId) == \E i \in 1..Len(node.children) : node.children[i] = cId

\* _addChild(cNode) on `node`
addChild(node, cNode) ==
  IF doesAlreadyHaveChild(node, cNode.id) THEN node
  ELSE [node EXCEPT !.children = Append(@, cNode.id),
                    !.hasSomaChildren = isSoma(cNode.type) \/ @]

\* the step of the loop variable in getNonSomaChildren: `i += 0`
NonSomaLoopStep == 0

RECURSIVE NonSomaLoop(_, _, _, _, _)
\* for (let i = 0; i < this._children.length; i += 0) { if (!isSoma) push }
\* `fuel` iterations are run; a loop still running then never ends, since one
\* pass per child is all a loop that ends can make: the result is then "hang"
NonSomaLoop(ns, node, i, acc, fuel) ==
  IF ~(i < Len(node.children)) THEN [hang |-> FALSE, list |-> acc]
  ELSE IF fuel = 0 THEN [hang |-> TRUE, list |-> <<>>]
  ELSE NonSomaLoop(ns, node, i + NonSomaLoopStep,
                   IF isSoma(ns[node.children[i + 1]].type) THEN acc
                   ELSE Append(acc, node.children[i + 1]),
                   fuel - 1)

\* getNonSomaChildren() of a node of the collection `ns`
getNonSomaChildren(ns, node) ==
  IF ~node.hasSomaChildren THEN [hang |-> FALSE, list |-> node.children]
  ELSE NonSomaLoop(ns, node, 0, <<>>, Len(node.children) + 1)

RECURSIVE dive(_, _, _, _)
\* dive(nodeList) on the node `id`.  The result names the nodes yielded, or
\* that getNonSomaChildren never returned (hang), or that the recursion went
\* deeper than the collection has nodes, which only a cycle of child links
\* does and which ends in a RangeError (overflow).
dive(ns, id, nodeList, depth) ==
  LET node == ns[id]
      list == Append(nodeList, id)
      got == getNonSomaChildren(ns, node)
      children == got.list
  IN IF got.hang THEN [hang |-> TRUE, overflow |-> FALSE, nodeList |-> list, next |-> <<>>]
     ELSE IF Len(children) = 1
       THEN IF ns[children[1]].type = node.type
              THEN IF depth >= Cardinality(DOMAIN ns)
                     THEN [hang |-> FALSE, overflow |-> TRUE, nodeList |-> list, next |-> <<>>]
                     ELSE dive(ns, children[1], list, depth + 1)
              ELSE [hang |-> FALSE, overflow |-> FALSE, nodeList |-> list, next |-> <<>>]
       ELSE [hang |-> FALSE, overflow |-> FALSE, nodeList |-> list, next |-> children]

-----------------------------------------------------------------------------
(* TreeNodeCollection._initCollection *)

RECURSIVE InitLoop(_, _, _, _)
\* the loop over points; threw: a TypeError left the loop (points[i] is a
\* hole, or the parent looked up is undefined)
InitLoop(points, i, ns, somaNodes) ==
  IF i > Len(points) THEN [threw |-> FALSE, nodes |-> ns, somaNodes |-> somaNodes]
  ELSE IF points[i] = Undefined
    THEN [threw |-> TRUE, nodes |-> ns, somaNodes |-> somaNodes]
  ELSE
    LET p == points[i][1]
        aNode == NewTreeNode(p)
        ns1 == Put(ns, p.id, aNode)
        soma1 == IF isSoma(p.type) THEN Append(somaNodes, p.id) ELSE somaNodes
    IN IF p.parentId = NO_PARENT THEN InitLoop(points, i + 1, ns1, soma1)
       ELSE LET theParentNode == Get(ns1, p.parentId)
            IN IF theParentNode = Undefined
                 THEN [threw |-> TRUE,
                       nodes |-> Put(ns1, p.id, [aNode EXCEPT !.parent = Undefined]),
                       somaNodes |-> soma1]
                 ELSE LET ns2 == Put(ns1, p.id, [ns1[p.id] EXCEPT !.parent = Some(p.parentId)])
                          ns3 == Put(ns2, p.parentId, addChild(ns2[p.parentId], ns2[p.id]))
                      IN InitLoop(points, i + 1, ns3, soma1)

\* the soma record built from the soma nodes, if there are some
RawSomaOf(ns, somaNodes) ==
  IF Len(somaNodes) > 0
    THEN Some([id |-> 0, type |-> "soma",
               radius |-> MaxOf([k \in 1..Len(somaNodes) |-> ns[somaNodes[k]].radius]),
               points |-> [k \in 1..Len(somaNodes) |-> [position |-> ns[somaNodes[k]].position]]])
    ELSE Null

-----------------------------------------------------------------------------
(* TreeNodeCollection._buildSections *)

RECURSIVE SearchLoop(_, _, _)
\* the loop that looks for the first node with non-soma children, over
\* Object.keys(this._nodes)
SearchLoop(ns, allNodeIds, i) ==
  IF i > Len(allNodeIds) THEN [hang |-> FALSE, node |-> Null, children |-> <<>>]
  ELSE LET childrenOfNode == getNonSomaChildren(ns, ns[allNodeIds[i]])
       IN IF childrenOfNode.hang THEN [hang |-> TRUE, node |-> Null, children |-> <<>>]
          ELSE IF Len(childrenOfNode.list) > 0
            THEN [hang |-> FALSE, node |-> Some(allNodeIds[i]), children |-> childrenOfNode.list]
            ELSE SearchLoop(ns, allNodeIds, i + 1)

\* a JavaScript condition on a section id or null: 0 and null are falsy
Truthy(v) == v # Null /\ v[1] # 0

\* if (parentSectionId) on the parent section id of a stack element
ParentTest(parentSectionId) == Truthy(parentSectionId)

\* the nodes of `list` pushed last to first
StackElemsReversed(list, parentSectionId) ==
  [k \in 1..Len(list) |-> [node |-> list[Len(list) + 1 - k], parentSectionId |-> parentSectionId]]

\* the stack elements pushed for the nodes in `list`
StackElems(list, parentSectionId) ==
  [k \in 1..Len(list) |-> [node |-> list[k], parentSectionId |-> parentSectionId]]

\* the points of a section with every radius kept as the node has it
SectionPointsAsStored(ns, nodeList, parentSectionId) ==
  [k \in 1..Len(nodeList) |->
     [position |-> ns[nodeList[k]].position, radius |-> ns[nodeList[k]].radius]]

\* the points of a section: position and radius of the nodes of nodeList,
\* the first radius set to 0 when the section has no parent section
SectionPoints(ns, nodeList, parentSectionId) ==
  [k \in 1..Len(nodeList) |->
     [position |-> ns[nodeList[k]].position,
      radius |-> IF parentSectionId = Null /\ k = 1 THEN 0 ELSE ns[nodeList[k]].radius]]

\* the seed with the starting node pushed too, as in the line commented out
\* after the seeding (nodeList.push(startingNode))
SeedNodeListWithStart(ns, startingNode) ==
  (IF ns[startingNode].parent # Null THEN <<ns[startingNode].parent[1]>> ELSE <<>>)
    \o <<startingNode>>

\* the nodeList a section starts from: the parent of the starting node, if
\* it has one
SeedNodeList(ns, startingNode) ==
  IF ns[startingNode].parent # Null THEN <<ns[startingNode].parent[1]>> ELSE <<>>

\* buildRawSection without `currentSectionId += 1`
buildRawSectionSameId(ns, secs, st, curId, startingNode, parentSectionId) ==
  LET d == dive(ns, startingNode, SeedNodeList(ns, startingNode), 1)
      section == [typevalue |-> ns[startingNode].type,
                  typename |-> Null,
                  points |-> SectionPoints(ns, d.nodeList, parentSectionId),
                  id |-> curId,
                  children |-> <<>>,
                  parent |-> parentSectionId]
  IN [hang |-> d.hang, overflow |-> d.overflow,
      sections |-> Append(secs, section),
      stack |-> st \o StackElems(d.next, Some(curId)),
      currentSectionId |-> curId]

\* buildRawSection(startingNode, parentSectionId) and the two lines of the
\* while loop that store the section; secs[k] is sections[k - 1]
buildRawSection(ns, secs, st, curId, startingNode, parentSectionId) ==
  LET d == dive(ns, startingNode, SeedNodeList(ns, startingNode), 1)
      section == [typevalue |-> ns[startingNode].type,
                  typename |-> Null,
                  points |-> SectionPoints(ns, d.nodeList, parentSectionId),
                  id |-> curId,
                  children |-> <<>>,
                  parent |-> parentSectionId]
      secs1 == IF ParentTest(parentSectionId)
                 THEN [secs EXCEPT ![parentSectionId[1] + 1].children = Append(@, curId)]
                 ELSE secs
  IN [hang |-> d.hang, overflow |-> d.overflow,
      sections |-> Append(secs1, section),
      stack |-> st \o StackElems(d.next, Some(curId)),
      currentSectionId |-> curId + 1]

-----------------------------------------------------------------------------
(* morphologycorejs: Section, Soma, Morphology *)

TYPEVALUE_2_TYPENAME ==
  [k \in 0..5 |-> CASE k = 0 -> "undefined" [] k = 1 -> "soma" [] k = 2 -> "axon"
                    [] k = 3 -> "basal_dendrite" [] k = 4 -> "apical_dendrite"
                    [] k = 5 -> "custom"]

\* new Section(morphology) followed by initWithRawSection(rawSection)
SectionInitWithRawSection(rawSection) ==
  LET lookup == rawSection.typename # Null \/ rawSection.typevalue # 0
  IN [id |-> rawSection.id,
      parent |-> Null,
      children |-> <<>>,
      typename |-> IF ~lookup THEN Null
                   ELSE IF rawSection.typename # Null THEN rawSection.typename
                   ELSE Get(TYPEVALUE_2_TYPENAME, rawSection.typevalue),
      typevalue |-> IF lookup THEN Some(rawSection.typevalue) ELSE Null,
      points |-> [k \in 1..Len(rawSection.points) |-> rawSection.points[k].position],
      radiuses |-> [k \in 1..Len(rawSection.points) |-> rawSection.points[k].radius]]

\* new Soma() followed by initWithRawSection(rawSoma)
SomaInitWithRawSection(raw) ==
  [id |-> raw.id, typename |-> "soma", typevalue |-> 1,
   points |-> [k \in 1..Len(raw.points) |-> raw.points[k].position],
   radius |-> raw.radius]

RECURSIVE SumOfPoints(_, _)
\* average[0..2] += this._points[i][0..2], over the points up to the n-th
SumOfPoints(points, n) ==
  IF n = 0 THEN <<0, 0, 0>>
  ELSE LET a == SumOfPoints(points, n - 1)
       IN <<a[1] + points[n][1], a[2] + points[n][2], a[3] + points[n][3]>>

\* Soma.getCenter(): null without points, else the point sum/over, which is
\* the single point or the sum of the points divided by their number
getCenter(soma) ==
  LET nbPoints == Len(soma.points)
  IN IF nbPoints = 1 THEN Some([sum |-> soma.points[1], over |-> 1])
     ELSE IF nbPoints > 1 THEN Some([sum |-> SumOfPoints(soma.points, nbPoints), over |-> nbPoints])
     ELSE Null

\* setParent with the test made on the id of the section handed in
SectionSetParentById(s, p) ==
  IF p # Undefined /\ p[1] # 0 /\ p[1] # s.id THEN [s EXCEPT !.parent = Some(p[1])] ELSE s

\* Section.setParent(section) on the section `s`; `p` is the section handed in
\* (undefined when the id looked up is not stored)
SectionSetParent(s, p) ==
  IF p # Undefined /\ p[1] # s.id THEN [s EXCEPT !.parent = Some(p[1])] ELSE s

\* what setParent returns: true when the parent was set
SectionSetParentReturns(s, p) == p # Undefined /\ p[1] # s.id

\* Section.hasChild
SectionHasChild(s, cId) == \E k \in 1..Len(s.children) : s.children[k] = cId

\* addChild without the test of hasChild
SectionAddChildAgain(s, cId) ==
  IF cId # s.id THEN [s EXCEPT !.children = Append(@, cId)] ELSE s

\* Section.addChild(section) on the section `s`
SectionAddChild(s, cId) ==
  IF cId # s.id /\ ~SectionHasChild(s, cId) THEN [s EXCEPT !.children = Append(@, cId)] ELSE s

\* what addChild returns: true but for a candidate of the id of the section
SectionAddChildReturns(s, cId) == cId # s.id

RECURSIVE AddChildren(_, _, _)
AddChildren(s, children, c) ==
  IF c > Len(children) THEN s
  ELSE AddChildren(SectionAddChild(s, children[c]), children, c + 1)

RECURSIVE FirstLoop(_, _, _)
\* the first loop of buildFromRawMorphology: this._sections[sId] = s
FirstLoop(rawSecs, i, secs) ==
  IF i > Len(rawSecs) THEN secs
  ELSE FirstLoop(rawSecs, i + 1, Put(secs, rawSecs[i].id, SectionInitWithRawSection(rawSecs[i])))

RECURSIVE SecondLoop(_, _, _)
\* the second loop of buildFromRawMorphology: parents and children
SecondLoop(rawSecs, i, secs) ==
  IF i > Len(rawSecs) THEN secs
  ELSE LET raw == rawSecs[i]
           s0 == secs[raw.id]
           s1 == IF raw.parent # Null
                   THEN SectionSetParent(s0, IF raw.parent[1] \in DOMAIN secs
                                               THEN Some(raw.parent[1]) ELSE Undefined)
                   ELSE s0
           s2 == AddChildren(s1, raw.children, 1)
       IN SecondLoop(rawSecs, i + 1, Put(secs, raw.id, s2))

\* new Morphology()
NewMorphology == [id |-> Null, sections |-> EmptyObject, soma |-> Null,
                  specialSections |-> EmptyObject]

\* Morphology.buildFromRawMorphology(rawMorphology) on the morphology m;
\* threw: rawMorphology.sections is null and reading its length is a TypeError
buildFromRawMorphology(m, raw) ==
  LET m1 == IF raw.soma # Null
              THEN [m EXCEPT !.soma = Some(SomaInitWithRawSection(raw.soma[1]))] ELSE m
  IN IF raw.sections = Null THEN [threw |-> TRUE, morphology |-> m1]
     ELSE [threw |-> FALSE,
           morphology |->
             [m1 EXCEPT !.sections =
                SecondLoop(raw.sections[1], 1, FirstLoop(raw.sections[1], 1, m1.sections))]]

-----------------------------------------------------------------------------
(* SwcParser.parse as a function of the text *)

RECURSIVE StackLoop(_, _, _, _)
\* the while loop of _buildSections
StackLoop(ns, secs, st, curId) ==
  IF st = <<>> THEN [status |-> "done", sections |-> secs]
  ELSE LET r == buildRawSection(ns, secs, Front(st), curId, Last(st).node,
                                Last(st).parentSectionId)
       IN IF r.hang THEN [status |-> "hang", sections |-> secs]
          ELSE IF r.overflow THEN [status |-> "failed", sections |-> secs]
          ELSE StackLoop(ns, r.sections, r.stack, r.currentSectionId)

\* what a parse call on a new instance leaves: how it ended, and the values
\* of getRawMorphology() and getMorphology() after it
ParseOutcome(swcStr) ==
  LET nothing == [status |-> "failed", rawMorphology |-> Null, morphology |-> Null]
      c == InitLoop(extractPoints(swcStr), 1, EmptyObject, <<>>)
      soma == RawSomaOf(c.nodes, c.somaNodes)
      f == SearchLoop(c.nodes, ObjectKeys(c.nodes), 1)
      l == IF f.node = Null THEN [status |-> "done", sections |-> <<>>]
           ELSE StackLoop(c.nodes, <<>>, StackElems(f.children, Null), 0)
      secs == IF Len(l.sections) > 0 THEN Some(l.sections) ELSE Null
      raw == [soma |-> soma, sections |-> secs]
      m == buildFromRawMorphology(NewMorphology, raw)
  IN IF c.threw THEN nothing
     ELSE IF f.hang \/ l.status = "hang" THEN [nothing EXCEPT !.status = "hang"]
     ELSE IF l.status = "failed" THEN nothing
     ELSE IF secs = Null /\ soma = Null THEN [nothing EXCEPT !.status = "done"]
     ELSE IF m.threw THEN nothing
     ELSE [status |-> "done", rawMorphology |-> Some(raw), morphology |-> Some(m.morphology)]

-----------------------------------------------------------------------------
(* The state machine: one SwcParser instance *)

\* new SwcParser()
Init ==
  /\ text = <<>>
  /\ pc = "idle"
  /\ rawPoints = <<>>
  /\ nodes = EmptyObject
  /\ rawSoma = Null
  /\ rawSections = Null
  /\ firstValidNode = Null
  /\ stack = <<>>
  /\ sections = <<>>
  /\ currentSectionId = 0
  /\ rawMorphology = Null
  /\ morphology = Null
  /\ calls = 0
  /\ hadMorphology = FALSE
  /\ model = NewMorphology
  /\ born = EmptyObject
  /\ builds = 0
  /\ returned = [call |-> "new Morphology"]

\* the longest text of the next parse call
LinesAllowed == IF pc = "idle" THEN MaxLines ELSE MaxReparseLines

\* parse(swcStr) without the two assignments of null it starts with
ParseTextKeepingResult(swcStr) ==
  /\ pc \in {"idle", "done", "failed"}
  /\ calls < MaxCalls
  /\ calls' = calls + 1
  /\ hadMorphology' = (morphology # Null)
  /\ UNCHANGED apiVars
  /\ text' = swcStr
  /\ rawPoints' = extractPoints(swcStr)
  /\ UNCHANGED <<morphology, rawMorphology>>
  /\ nodes' = EmptyObject
  /\ rawSoma' = Null
  /\ rawSections' = Null
  /\ firstValidNode' = Null
  /\ stack' = <<>>
  /\ sections' = <<>>
  /\ currentSectionId' = 0
  /\ pc' = "collection"

\* parse(swcStr) up to the call of the TreeNodeCollection constructor, and the
\* constructor up to the call of _initCollection
ParseText(swcStr) ==
  /\ pc \in {"idle", "done", "failed"}
  /\ calls < MaxCalls
  /\ calls' = calls + 1
  /\ hadMorphology' = (morphology # Null)
  /\ UNCHANGED apiVars
  /\ text' = swcStr
  /\ rawPoints' = extractPoints(swcStr)
  /\ morphology' = Null
  /\ rawMorphology' = Null
  /\ nodes' = EmptyObject
  /\ rawSoma' = Null
  /\ rawSections' = Null
  /\ firstValidNode' = Null
  /\ stack' = <<>>
  /\ sections' = <<>>
  /\ currentSectionId' = 0
  /\ pc' = "collection"

\* parse called with a tree text
ParseTree ==
  \E n \in 0..LinesAllowed, order \in IdOrders :
    \E ty \in [1..n -> TypeCodes], rad \in RadiusTables(n), par \in ValidParents(n) :
      ParseText(TreeText(order, n, ty, rad, par))

\* parse called with a sloppy text
ParseSloppy ==
  \E n \in 0..LinesAllowed : \E c \in SloppyLines(n) : ParseText(SloppyText(n, c))

\* parse called with a long text, on a new instance
ParseLong ==
  /\ pc = "idle"
  /\ \E ty \in [1..LongLines -> {TYPE_SOMA, TYPE_AXON}], par \in ValidParents(LongLines) :
       ParseText(LongText(ty, par))

\* parse called again, on an instance that has already parsed, with a tree
\* text of soma and axon points
ParseAgain ==
  /\ pc \in {"done", "failed"}
  /\ \E order \in IdOrders, ty \in [1..AgainLines -> {TYPE_SOMA, TYPE_AXON}],
        par \in ValidParents(AgainLines) :
       ParseText(TreeText(order, AgainLines, ty, [k \in 1..AgainLines |-> 5], par))

\* parse called with a text that has a record naming itself as its parent
ParseSelfParent ==
  /\ \E n \in 1..MaxSelfParentLines :
       \E ty \in [1..n -> {TYPE_UNDEFINED, TYPE_AXON}], par \in SelfParents(n) :
         ParseText(SelfParentText(n, ty, par))

\* _initCollection with the TypeError of a missing parent caught
InitCollectionCatches ==
  /\ pc = "collection"
  /\ LET r == InitLoop(rawPoints, 1, EmptyObject, <<>>)
     IN /\ nodes' = r.nodes
        /\ rawSoma' = RawSomaOf(r.nodes, r.somaNodes)
        /\ pc' = "search"
  /\ UNCHANGED <<text, rawPoints, rawSections, firstValidNode, stack, sections,
                 currentSectionId, rawMorphology, morphology>>
  /\ UNCHANGED <<calls, hadMorphology, model, born, builds, returned>>

\* _initCollection(points)
InitCollection ==
  /\ pc = "collection"
  /\ LET r == InitLoop(rawPoints, 1, EmptyObject, <<>>)
     IN /\ nodes' = r.nodes
        /\ rawSoma' = IF r.threw THEN Null ELSE RawSomaOf(r.nodes, r.somaNodes)
        /\ pc' = IF r.threw THEN "failed" ELSE "search"
  /\ UNCHANGED <<text, rawPoints, rawSections, firstValidNode, stack, sections,
                 currentSectionId, rawMorphology, morphology>>
  /\ UNCHANGED <<calls, hadMorphology, model, born, builds, returned>>

\* _buildSections() up to the while loop
FindFirstValidNode ==
  /\ pc = "search"
  /\ LET r == SearchLoop(nodes, ObjectKeys(nodes), 1)
     IN /\ firstValidNode' = r.node
        /\ stack' = StackElems(r.children, Null)
        /\ pc' = IF r.hang THEN "hang" ELSE IF r.node = Null THEN "objects" ELSE "stack"
  /\ UNCHANGED <<text, rawPoints, nodes, rawSoma, rawSections, sections,
                 currentSectionId, rawMorphology, morphology>>
  /\ UNCHANGED <<calls, hadMorphology, model, born, builds, returned>>

\* one pass of the while loop of _buildSections, and the end of the method
\* after the last pass
PopStack ==
  /\ pc = "stack"
  /\ stack # <<>>
  /\ currentSectionId < MaxSections
  /\ LET stackElem == Last(stack)
         r == buildRawSection(nodes, sections, Front(stack), currentSectionId,
                              stackElem.node, stackElem.parentSectionId)
     IN IF r.hang \/ r.overflow
          THEN /\ pc' = IF r.hang THEN "hang" ELSE "failed"
               /\ stack' = Front(stack)
               /\ UNCHANGED <<sections, currentSectionId, rawSections>>
          ELSE /\ sections' = r.sections
               /\ stack' = r.stack
               /\ currentSectionId' = r.currentSectionId
               /\ rawSections' = IF r.stack = <<>> /\ Len(r.sections) > 0
                                   THEN Some(r.sections) ELSE rawSections
               /\ pc' = IF r.stack = <<>> THEN "objects" ELSE "stack"
  /\ UNCHANGED <<text, rawPoints, nodes, rawSoma, firstValidNode, rawMorphology, morphology>>
  /\ UNCHANGED <<calls, hadMorphology, model, born, builds, returned>>

\* _buildMorphologyObjects() without its early return: a Morphology is made
\* of whatever there is, sections or not
BuildMorphologyObjectsOfNothing ==
  /\ pc = "objects"
  /\ LET raw == [soma |-> rawSoma,
                 sections |-> IF rawSections = Null THEN Some(<<>>) ELSE rawSections]
         r == buildFromRawMorphology(NewMorphology, raw)
     IN /\ pc' = "done"
        /\ rawMorphology' = Some(raw)
        /\ morphology' = Some(r.morphology)
  /\ UNCHANGED <<text, rawPoints, nodes, rawSoma, rawSections, firstValidNode, stack,
                 sections, currentSectionId>>
  /\ UNCHANGED <<calls, hadMorphology, model, born, builds, returned>>

\* _buildMorphologyObjects(), the return of the constructor and the two
\* assignments that end parse()
BuildMorphologyObjects ==
  /\ pc = "objects"
  /\ IF rawSections = Null /\ rawSoma = Null
       THEN /\ pc' = "done"
            /\ UNCHANGED <<rawMorphology, morphology>>
       ELSE LET raw == [soma |-> rawSoma, sections |-> rawSections]
                r == buildFromRawMorphology(NewMorphology, raw)
            IN IF r.threw
                 THEN /\ pc' = "failed"
                      /\ UNCHANGED <<rawMorphology, morphology>>
                 ELSE /\ pc' = "done"
                      /\ rawMorphology' = Some(raw)
                      /\ morphology' = Some(r.morphology)
  /\ UNCHANGED <<text, rawPoints, nodes, rawSoma, rawSections, firstValidNode, stack,
                 sections, currentSectionId>>
  /\ UNCHANGED <<calls, hadMorphology, model, born, builds, returned>>

Next ==
  \/ ParseTree
  \/ ParseSloppy
  \/ ParseLong
  \/ ParseAgain
  \/ ParseSelfParent
  \/ InitCollection
  \/ FindFirstValidNode
  \/ PopStack
  \/ BuildMorphologyObjects

Spec == Init /\ [][Next]_vars

-----------------------------------------------------------------------------
(* A Morphology instance used through its own methods *)

\* The Section objects of the model are told apart by the call that made them
\* and their id: a later buildFromRawMorphology call stores new objects under
\* the ids it is given, and lists returned earlier keep the old ones.
SectionRef(b, id) == <<b[id], id>>

\* the keys handed to getSection: a number, or a name
IndexKey(n) == [kind |-> "index", index |-> n, name |-> ""]
NameKey(s) == [kind |-> "name", index |-> 0, name |-> s]

\* names that every object inherits from Object.prototype
ObjectPrototypeNames == {"constructor"}

\* key in obj
HasProperty(obj, key) ==
  IF key.kind = "index" THEN key.index \in DOMAIN obj ELSE key.name \in ObjectPrototypeNames

\* getSection(id): what is returned
getSection(m, b, key) ==
  IF HasProperty(m.sections, key)
    THEN IF key.kind = "index"
           THEN [kind |-> "section", ref |-> SectionRef(b, key.index), name |-> ""]
           ELSE [kind |-> "inherited", ref |-> <<>>, name |-> key.name]
    ELSE [kind |-> "null", ref |-> <<>>, name |-> ""]

\* this._specialSections[specialityName], after the first test of
\* _findSpecialSection has stored null for a name not yet known
SpecialSection(m, specialityName) ==
  IF specialityName \in DOMAIN m.specialSections THEN m.specialSections[specialityName] ELSE Null

\* the test with an empty list taken for no list
MustRebuildIfEmpty(force, cached) == force \/ cached = Null \/ cached[1] = <<>>

\* force || !this._specialSections[specialityName]: an array, empty or not,
\* is truthy
MustRebuild(force, cached) == force \/ cached = Null

\* the selector of getOrphanSections: s => !s.getParent()
OrphanSelector(s) == s.parent = Null

\* the Sections among Object.values(this._sections) that the selector takes
SelectSections(m, b) ==
  LET allSections == ObjectKeys(m.sections)
      chosen == SelectSeq(allSections, LAMBDA id : OrphanSelector(m.sections[id]))
  IN [k \in 1..Len(chosen) |-> SectionRef(b, chosen[k])]

\* _findSpecialSection('orphans', s => !s.getParent(), force)
findSpecialSection(m, b, force) ==
  LET cached == SpecialSection(m, "orphans")
      list == IF MustRebuild(force, cached) THEN SelectSections(m, b) ELSE cached[1]
  IN [morphology |-> [m EXCEPT !.specialSections = Put(@, "orphans", Some(list))],
      list |-> list]

\* the texts whose raw morphology is handed over: axon points in valid order
ApiText(n, par) ==
  TreeText("asc", n, [k \in 1..n |-> TYPE_AXON], [k \in 1..n |-> 5], par)

\* the raw morphologies that getRawMorphology() returns after the parse of
\* such a text on a new SwcParser, when it returns one
ApiRawMorphologies ==
  {o.rawMorphology[1] :
     o \in {p \in {ParseOutcome(ApiText(c[1], c[2])) :
                     c \in UNION {{<<n, par>> : par \in ValidParents(n)} : n \in 0..MaxApiLines}} :
              p.rawMorphology # Null}}

\* morphology.buildFromRawMorphology(swcParser.getRawMorphology())
ApiBuildFromRawMorphology ==
  /\ builds < MaxBuilds
  /\ \E raw \in ApiRawMorphologies :
       LET r == buildFromRawMorphology(model, raw)
           made == {raw.sections[1][k].id : k \in 1..Len(raw.sections[1])}
       IN /\ ~r.threw
          /\ model' = r.morphology
          /\ born' = [id \in DOMAIN r.morphology.sections |->
                        IF id \in made THEN builds + 1 ELSE born[id]]
  /\ builds' = builds + 1
  /\ returned' = [call |-> "buildFromRawMorphology"]
  /\ UNCHANGED <<text, pc, rawPoints, nodes, rawSoma, rawSections, firstValidNode,
                 stack, sections, currentSectionId, rawMorphology, morphology, calls, hadMorphology>>

\* morphology.getOrphanSections(force)
ApiGetOrphanSections ==
  /\ \E force \in BOOLEAN :
       LET r == findSpecialSection(model, born, force)
       IN /\ model' = r.morphology
          /\ returned' = [call |-> "getOrphanSections", force |-> force, value |-> r.list]
  /\ UNCHANGED <<born, builds>>
  /\ UNCHANGED <<text, pc, rawPoints, nodes, rawSoma, rawSections, firstValidNode,
                 stack, sections, currentSectionId, rawMorphology, morphology, calls, hadMorphology>>

\* morphology.getSection(sId).setParent(morphology.getSection(pId))
ApiSetParent ==
  /\ \E sId, pId \in DOMAIN model.sections :
       /\ model' = [model EXCEPT !.sections =
                      Put(@, sId, SectionSetParent(model.sections[sId], Some(pId)))]
       /\ returned' = [call |-> "setParent", section |-> sId, parent |-> pId,
                       value |-> SectionSetParentReturns(model.sections[sId], Some(pId))]
  /\ UNCHANGED <<born, builds>>
  /\ UNCHANGED <<text, pc, rawPoints, nodes, rawSoma, rawSections, firstValidNode,
                 stack, sections, currentSectionId, rawMorphology, morphology, calls, hadMorphology>>

\* the ids of the sections that addChild is called on and with
ApiChildIds == {0, 1}

\* morphology.getSection(sId).addChild(morphology.getSection(cId))
ApiAddChild ==
  /\ \E sId, cId \in DOMAIN model.sections \cap ApiChildIds :
       /\ model' = [model EXCEPT !.sections =
                      Put(@, sId, SectionAddChild(model.sections[sId], cId))]
       /\ returned' = [call |-> "addChild", section |-> sId, child |-> cId,
                       value |-> SectionAddChildReturns(model.sections[sId], cId)]
  /\ UNCHANGED <<born, builds>>
  /\ UNCHANGED <<text, pc, rawPoints, nodes, rawSoma, rawSections, firstValidNode,
                 stack, sections, currentSectionId, rawMorphology, morphology, calls, hadMorphology>>

\* the keys tried on getSection: the smallest id, an id no section of the
\* texts has, and the inherited names
ApiKeys == {IndexKey(0), IndexKey(MaxApiLines)} \cup {NameKey(s) : s \in ObjectPrototypeNames}

\* morphology.getSection(id): the method has no throw statement, its outcome
\* is the value it returns
ApiGetSection ==
  /\ \E key \in ApiKeys :
       returned' = [call |-> "getSection", key |-> key, error |-> Null,
                    value |-> getSection(model, born, key)]
  /\ UNCHANGED <<model, born, builds>>
  /\ UNCHANGED <<text, pc, rawPoints, nodes, rawSoma, rawSections, firstValidNode,
                 stack, sections, currentSectionId, rawMorphology, morphology, calls, hadMorphology>>

\* JavaScript values of the two kinds a count may be taken for
NumberValue(n) == [kind |-> "number", number |-> n, array |-> <<>>]
ArrayValue(a) == [kind |-> "array", number |-> 0, array |-> a]

\* getNumberOfSections(): `return Object.keys(this._sections)`, the array of
\* the keys
getNumberOfSections(m) == ArrayValue(ObjectKeys(m.sections))

\* getArrayOfSections(): Object.values(this._sections)
getArrayOfSections(m, b) ==
  LET allSections == ObjectKeys(m.sections)
  IN [k \in 1..Len(allSections) |-> SectionRef(b, allSections[k])]

\* morphology.getNumberOfSections()
ApiGetNumberOfSections ==
  /\ returned' = [call |-> "getNumberOfSections", value |-> getNumberOfSections(model)]
  /\ UNCHANGED <<model, born, builds>>
  /\ UNCHANGED <<text, pc, rawPoints, nodes, rawSoma, rawSections, firstValidNode,
                 stack, sections, currentSectionId, rawMorphology, morphology, calls, hadMorphology>>

MorphologyNext ==
  \/ ApiBuildFromRawMorphology
  \/ ApiGetOrphanSections
  \/ ApiSetParent
  \/ ApiGetSection
  \/ ApiGetNumberOfSections
  \/ ApiAddChild

MorphologySpec == Init /\ [][MorphologyNext]_vars

-----------------------------------------------------------------------------
(* Vocabulary of the properties *)

Ended == pc \in {"done", "failed"}
Outcome == [status |-> pc, rawMorphology |-> rawMorphology, morphology |-> morphology]

\* the producer invariant of a text: data lines only, every id once, and the
\* parent of every record with a parent on an earlier line
ProducerInvariant(t) ==
  /\ \A k \in 1..Len(t) : t[k].kind = "data"
  /\ \A j, k \in 1..Len(t) : t[j].id = t[k].id => j = k
  /\ \A k \in 1..Len(t) :
       t[k].parentId = NO_PARENT \/ \E j \in 1..(k - 1) : t[j].id = t[k].parentId

\* a soma point by the type code the record carries
SomaTyped(n) == n.type = TYPE_SOMA

\* the children of a node that are not soma-typed, in child-list order
NonSomaTypedChildren(id) ==
  SelectSeq(nodes[id].children, LAMBDA c : ~SomaTyped(nodes[c]))

\* the node a section point was taken from: positions are (id, 0, 0)
NodeOfPoint(pt) == pt.position[1]

\* the raw sections built so far, as a set
Sections == SeqToSet(sections)

\* the text without its line i
RemoveAt(t, i) == SubSeq(t, 1, i - 1) \o SubSeq(t, i + 1, Len(t))

\* the lines extractPoints drops
DroppedLines(t) == {i \in 1..Len(t) : t[i].kind # "data"}

\* a data line whose parent id is neither -1 nor the id of a data line before
\* it or of itself
BrokenLinkage(t) ==
  \E k \in 1..Len(t) :
    /\ t[k].kind = "data"
    /\ t[k].parentId # NO_PARENT
    /\ ~\E j \in 1..k : t[j].kind = "data" /\ t[j].id = t[k].parentId

-----------------------------------------------------------------------------
(* C1 *)

\* a node of the text has a soma-typed child and a child that is not
HasMixedChildren(t) ==
  \E i, j, k \in 1..Len(t) :
    /\ t[j].parentId = t[i].id /\ t[k].parentId = t[i].id
    /\ SomaTyped(t[j]) /\ ~SomaTyped(t[k])

\* C1: a parse call whose text satisfies the producer invariant comes to its
\* end, texts with soma-typed children included: no loop runs for ever (hang)
\* and nothing fails; the work-stack loop is left as soon as the stack is
\* empty; and its passes are bounded, since the sections built and the stack
\* elements waiting are fewer than the nodes
C1_ParseTerminates ==
  ProducerInvariant(text) =>
    /\ pc \notin {"hang", "failed"}
    /\ pc = "stack" => stack # <<>>
    /\ pc = "stack" => Len(sections) + Len(stack) < Cardinality(DOMAIN nodes)

C1_Witness ==
  /\ pc = "done"
  /\ ProducerInvariant(text)
  /\ HasMixedChildren(text)
  /\ \E i, j \in 1..Len(text) : SomaTyped(text[i]) /\ SomaTyped(text[j])
                                 /\ text[j].parentId = text[i].id
  /\ Len(sections) > 1

-----------------------------------------------------------------------------
(* C2 *)

\* the text has a soma-typed point and no record that is a non-soma child
SomaOnlyText(t) ==
  /\ ProducerInvariant(t)
  /\ \E k \in 1..Len(t) : SomaTyped(t[k])
  /\ \A k \in 1..Len(t) : t[k].parentId # NO_PARENT => SomaTyped(t[k])

\* C2: a parse of a text with a soma point and no non-soma child completes
\* and gives a morphology with a soma and no section
C2_SomaWithoutSections ==
  Ended /\ SomaOnlyText(text) =>
    /\ pc = "done"
    /\ morphology # Null
    /\ morphology[1].soma # Null
    /\ morphology[1].sections = EmptyObject
    /\ Len(text) = 1 =>
         /\ morphology[1].soma[1].radius = text[1].radius
         /\ morphology[1].soma[1].points = <<text[1].position>>

-----------------------------------------------------------------------------
(* C3 *)

\* C3: a dropped line changes nothing, wherever it stands: the parse ends as
\* the parse of the text without the line does, with the same result, and a
\* parse fails only on a broken parent linkage
C3_DroppedLineTolerated ==
  Ended =>
    /\ \A i \in DroppedLines(text) : Outcome = ParseOutcome(RemoveAt(text, i))
    /\ DroppedLines(text) # {} /\ pc = "failed" => BrokenLinkage(text)

-----------------------------------------------------------------------------
(* C4 *)

\* C4: in the raw section list and in the Morphology built from it, S has
\* parent P exactly when S is among the children of P, section 0 included
C4_LinkageSymmetric ==
  pc = "done" /\ rawMorphology # Null /\ rawMorphology[1].sections # Null =>
    /\ \A S, P \in SeqToSet(rawMorphology[1].sections[1]) :
         S.parent = Some(P.id) <=> S.id \in SeqToSet(P.children)
    /\ \A sId, pId \in DOMAIN morphology[1].sections :
         morphology[1].sections[sId].parent = Some(pId)
           <=> sId \in SeqToSet(morphology[1].sections[pId].children)

-----------------------------------------------------------------------------
(* C5 *)

\* a record reached by _initCollection whose parent id is not -1 and names no
\* node registered when the record is processed
UnregisteredParent ==
  \E i \in 1..Len(rawPoints) :
    /\ \A j \in 1..i : rawPoints[j] # Undefined
    /\ rawPoints[i][1].parentId # NO_PARENT
    /\ ~\E j \in 1..i : rawPoints[j][1].id = rawPoints[i][1].parentId

\* C5: a record whose parent is not registered makes the parse fail: the call
\* never gets past _initCollection, builds no section and leaves no morphology
C5_MissingParentFails ==
  UnregisteredParent =>
    /\ pc \in {"collection", "failed"}
    /\ morphology = Null /\ rawMorphology = Null
    /\ firstValidNode = Null /\ stack = <<>> /\ sections = <<>> /\ rawSections = Null

C5_Witness ==
  /\ UnregisteredParent
  /\ pc = "failed"
  /\ Len(rawPoints) > 2
  /\ \E i \in 2..Len(rawPoints) : rawPoints[i] # Undefined /\ rawPoints[i][1].parentId \in DOMAIN nodes

-----------------------------------------------------------------------------
(* C6 *)

\* the sections whose parent is the section P
ChildSectionsOf(P) == {S \in Sections : S.parent = Some(P.id)}

\* the section was started at the node c: c is its first point after the
\* point of continuity
StartedAt(S, c) == Len(S.points) >= 2 /\ NodeOfPoint(S.points[2]) = c

\* C6: where a section P ends at a fork F of k >= 2 non-soma children, the
\* sections with parent P are k, one started at each non-soma child of F,
\* and each begins at the position of F
C6_ForkChildSections ==
  pc = "done" =>
    \A P \in Sections :
      LET F == NodeOfPoint(Last(P.points))
          kids == NonSomaTypedChildren(F)
      IN Len(kids) >= 2 =>
           /\ Cardinality(ChildSectionsOf(P)) = Len(kids)
           /\ \A c \in SeqToSet(kids) :
                Cardinality({S \in ChildSectionsOf(P) : StartedAt(S, c)}) = 1
           /\ \A S \in ChildSectionsOf(P) :
                S.points[1].position = Last(P.points).position

-----------------------------------------------------------------------------
(* C7 *)

\* a soma point followed by an unbranched chain of non-soma points of one type
ChainText(t) ==
  /\ Len(t) >= 2
  /\ \A k \in 1..Len(t) : t[k].kind = "data"
  /\ SomaTyped(t[1]) /\ t[1].parentId = NO_PARENT
  /\ \A k \in 2..Len(t) :
       /\ ~SomaTyped(t[k]) /\ t[k].type = t[2].type
       /\ t[k].parentId = t[k - 1].id

\* C7: the parse of a soma point with a chain of n points gives one section:
\* of the type of the chain, of n+1 points (the soma point, then the chain in
\* order), its first radius 0, without parent and without children
C7_ChainIsOneSection ==
  Ended /\ ChainText(text) =>
    /\ pc = "done"
    /\ Len(sections) = 1
    /\ sections[1].typevalue = text[2].type
    /\ Len(sections[1].points) = Len(text)
    /\ \A k \in 1..Len(text) :
         /\ k <= Len(sections[1].points)
         /\ sections[1].points[k].position = text[k].position
         /\ sections[1].points[k].radius = IF k = 1 THEN 0 ELSE text[k].radius
    /\ sections[1].parent = Null
    /\ sections[1].children = <<>>

-----------------------------------------------------------------------------
(* C8 *)

RECURSIVE DescendantsWithin(_, _)
\* the node and the nodes below it, to the depth given
DescendantsWithin(id, depth) ==
  IF depth = 0 THEN {id}
  ELSE {id} \cup UNION {DescendantsWithin(c, depth - 1) : c \in SeqToSet(nodes[id].children)}

Descendants(id) == DescendantsWithin(id, Cardinality(DOMAIN nodes))

\* the nodes that are points of some section
NodesInSections == UNION {{NodeOfPoint(S.points[k]) : k \in 1..Len(S.points)} : S \in Sections}

\* C8: where the walk of a section reaches a node N whose only non-soma child
\* C is of another type, the section ends at N, C is never put on the work
\* stack, no section holds C or a node below C, and the parse completes
C8_TypeChangeTruncates ==
  pc \in {"stack", "objects", "done", "failed", "hang"} =>
    \A S \in Sections : \A k \in 2..Len(S.points) :
      LET N == NodeOfPoint(S.points[k])
          kids == NonSomaTypedChildren(N)
      IN Len(kids) = 1 /\ nodes[kids[1]].type # nodes[N].type =>
           /\ k = Len(S.points)
           /\ \A e \in SeqToSet(stack) : e.node # kids[1]
           /\ Descendants(kids[1]) \cap NodesInSections = {}
           /\ pc \in {"stack", "objects", "done"}

-----------------------------------------------------------------------------
(* C9 *)

\* the number of non-first points of sections taken from the node n
TimesInSections(n) ==
  Cardinality({<<i, k>> \in (1..Len(sections)) \X (2..(Cardinality(DOMAIN nodes) + 1)) :
                 k <= Len(sections[i].points) /\ NodeOfPoint(sections[i].points[k]) = n})

\* the number of soma points taken from the node n
TimesInSoma(n) ==
  IF rawSoma = Null THEN 0
  ELSE Cardinality({k \in 1..Len(rawSoma[1].points) : rawSoma[1].points[k].position = nodes[n].position})

-----------------------------------------------------------------------------
(* C10 *)

\* the lines of the text whose record has a non-soma child
LinesWithNonSomaChild(t) ==
  {i \in 1..Len(t) : \E k \in 1..Len(t) : t[k].parentId = t[i].id /\ ~SomaTyped(t[k])}

\* C10: the entry node is the record first in the text among those with a
\* non-soma child, whatever the ids; without such a record no section is built
C10_EntryIsFirstInFile ==
  pc \in {"stack", "objects", "done"} /\ ProducerInvariant(text) =>
    LET L == LinesWithNonSomaChild(text)
    IN IF L = {} THEN firstValidNode = Null /\ sections = <<>>
       ELSE firstValidNode = Some(text[CHOOSE i \in L : \A j \in L : i <= j].id)

-----------------------------------------------------------------------------
(* C11 *)

RECURSIVE AncestorsOrSelf(_)
\* the ids of the section and of the sections above it, by the parent ids
AncestorsOrSelf(id) ==
  {id} \cup (IF sections[id + 1].parent = Null THEN {}
             ELSE AncestorsOrSelf(sections[id + 1].parent[1]))

\* the ids of the sections of the subtree of the section T
SubtreeIds(T) == {S.id : S \in {X \in Sections : T.id \in AncestorsOrSelf(X.id)}}

\* the place of the node c in the child list of the node F
ChildIndex(F, c) == CHOOSE i \in 1..Len(nodes[F].children) : nodes[F].children[i] = c

\* C11: section ids follow the pops of the work stack: the section at place k
\* of the list has id k-1, a section's id is above its parent's, the ids of a
\* subtree of sections are consecutive from the id of its root, and of two
\* sections started at children of one fork the one started at the later
\* child has the smaller id
C11_DepthFirstIds ==
  pc = "done" =>
    /\ \A k \in 1..Len(sections) : sections[k].id = k - 1
    /\ \A S \in Sections : S.parent # Null => S.id > S.parent[1]
    /\ \A T \in Sections :
         SubtreeIds(T) = T.id..(T.id + Cardinality(SubtreeIds(T)) - 1)
    /\ \A S, T \in Sections :
         LET F == NodeOfPoint(S.points[1])
         IN /\ S.parent = T.parent
            /\ NodeOfPoint(T.points[1]) = F
            /\ ChildIndex(F, NodeOfPoint(S.points[2])) < ChildIndex(F, NodeOfPoint(T.points[2]))
            => S.id > T.id

\* two sections started at the entry node, the one of the smaller id with a
\* fork at its end: the sections of its subtree come before the other one
C11_Witness ==
  /\ pc = "done"
  /\ \E S, T \in Sections :
       /\ S.parent = Null /\ T.parent = Null /\ S.id < T.id
       /\ Cardinality({U \in Sections : U.parent = Some(S.id)}) >= 2
       /\ T.id = S.id + Cardinality(SubtreeIds(S))

-----------------------------------------------------------------------------
(* C12 *)

\* soma-typed points only, in one chain of two points or more
SomaChainText(t) ==
  /\ Len(t) >= 2
  /\ ProducerInvariant(t)
  /\ \A k \in 1..Len(t) : SomaTyped(t[k])
  /\ t[1].parentId = NO_PARENT
  /\ \A k \in 2..Len(t) : t[k].parentId = t[k - 1].id

\* C12: the parse of a chain of n >= 2 soma points gives no section and a soma
\* of the largest radius, with the n positions in file order as points and
\* their mean as center
C12_SomaChainIsSoma ==
  Ended /\ SomaChainText(text) =>
    /\ pc = "done"
    /\ morphology # Null
    /\ morphology[1].sections = EmptyObject
    /\ morphology[1].soma # Null
    /\ LET soma == morphology[1].soma[1]
           n == Len(text)
       IN /\ soma.radius = MaxOf([k \in 1..n |-> text[k].radius])
          /\ soma.points = [k \in 1..n |-> text[k].position]
          /\ getCenter(soma) # Null
          /\ \A c \in 1..3 :
               getCenter(soma)[1].sum[c] * n
                 = SumOfPoints([k \in 1..n |-> text[k].position], n)[c] * getCenter(soma)[1].over

-----------------------------------------------------------------------------
(* C13 *)

\* C13: the outcome of a parse call is a function of its text alone: a call
\* on an instance that has parsed before, whatever it parsed and however that
\* ended, ends as the call on a new instance does, with the same raw
\* morphology (sections with ids, parents, children and points, soma) and the
\* same Morphology
C13_ParseIsDeterministic ==
  Ended => Outcome = ParseOutcome(text)

\* a second parse call on an instance that gave sections
C13_Witness ==
  /\ pc = "done"
  /\ calls = 2
  /\ rawMorphology # Null
  /\ Len(sections) >= 1
  /\ morphology # Null /\ DOMAIN morphology[1].sections # {}

-----------------------------------------------------------------------------
(* C14 *)

\* C14: a new Morphology built from the raw morphology R of a parse that gave
\* sections has one Section per raw section, each with the Section of the raw
\* parent id as parent (none for null) and with the Sections of the raw
\* children ids as children, in order
C14_RoundTrip ==
  pc = "done" /\ rawMorphology # Null /\ rawMorphology[1].sections # Null =>
    LET R == rawMorphology[1]
        built == buildFromRawMorphology(NewMorphology, R)
        M == built.morphology
    IN /\ ~built.threw
       /\ Cardinality(DOMAIN M.sections) = Len(R.sections[1])
       /\ \A k \in 1..Len(R.sections[1]) :
            LET raw == R.sections[1][k]
            IN /\ raw.id \in DOMAIN M.sections
               /\ M.sections[raw.id].id = raw.id
               /\ M.sections[raw.id].parent = raw.parent
               /\ raw.parent # Null => raw.parent[1] \in DOMAIN M.sections
               /\ M.sections[raw.id].children = raw.children
               /\ SeqToSet(raw.children) \subseteq DOMAIN M.sections

\* a raw morphology with a section that has children and a parent of its own
\* children, next to sections without parent
C14_Witness ==
  /\ pc = "done" /\ rawMorphology # Null /\ rawMorphology[1].sections # Null
  /\ \E S, T \in SeqToSet(rawMorphology[1].sections[1]) :
       /\ Len(S.children) >= 2
       /\ T.parent = Some(S.id) /\ T.id \in SeqToSet(S.children)
  /\ \E S \in SeqToSet(rawMorphology[1].sections[1]) : S.parent = Null /\ S.children = <<>>

-----------------------------------------------------------------------------
(* C15 *)

\* a section is stored under the key
StoredUnder(m, key) == key.kind = "index" /\ key.index \in DOMAIN m.sections

\* C15: getSection(id) gives the section of that id when one is stored under
\* id, and fails with a NotFound error when none is
C15_GetSectionNotFound ==
  returned.call = "getSection" =>
    IF StoredUnder(model, returned.key)
      THEN /\ returned.error = Null
           /\ returned.value.kind = "section"
           /\ returned.value.ref = SectionRef(born, returned.key.index)
           /\ model.sections[returned.key.index].id = returned.key.index
      ELSE returned.error = Some("NotFound")

-----------------------------------------------------------------------------
(* C16 *)

\* the orphan sections of the model as it is
OrphansNow == SelectSections(model, born)

\* the step is a getOrphanSections call with the force given
OrphansCalled(force) == returned'.call = "getOrphanSections" /\ returned'.force = force

\* C16: once getOrphanSections has been called, the list it stored stays the
\* stored one through every step but a forced call, and a call without force
\* returns it, be it empty; a forced call returns the orphan sections of the
\* model as it is and stores them
C16_OrphanCacheSticky ==
  [][ /\ SpecialSection(model, "orphans") # Null /\ ~OrphansCalled(TRUE)
           => SpecialSection(model', "orphans") = SpecialSection(model, "orphans")
      /\ SpecialSection(model, "orphans") # Null /\ OrphansCalled(FALSE)
           => returned'.value = SpecialSection(model, "orphans")[1]
      /\ OrphansCalled(TRUE)
           => /\ returned'.value = OrphansNow
              /\ SpecialSection(model', "orphans") = Some(OrphansNow) ]_vars

\* a call without force that returned the stored list, which is not the list
\* of the orphan sections any more, after a second buildFromRawMorphology call
C16_Witness ==
  /\ returned.call = "getOrphanSections" /\ ~returned.force
  /\ builds = 2
  /\ returned.value # <<>>
  /\ returned.value # OrphansNow
  /\ \E k \in 1..Len(returned.value) : returned.value[k][1] = 1

-----------------------------------------------------------------------------
(* C17 *)

\* the ids of the sections that getOrphanSections() returns, called for the
\* first time on the Morphology m of a parse
OrphanIdsOf(m) ==
  {ref[2] : ref \in SeqToSet(findSpecialSection(m, [id \in DOMAIN m.sections |-> 1], FALSE).list)}

\* the orphan sections are the sections whose raw parent is null, a section
\* with parent 0 is none of them
OrphansAreParentless ==
  pc = "done" /\ morphology # Null =>
    /\ OrphanIdsOf(morphology[1]) = {S.id : S \in {X \in Sections : X.parent = Null}}
    /\ \A S \in Sections : S.parent = Some(0) => S.id \notin OrphanIdsOf(morphology[1])

\* C17: on the Morphology of a completed parse getOrphanSections() returns
\* the sections whose raw parent is null, never one whose parent is section
\* 0, and these are the sections started at the non-soma children of the
\* entry node, one for each
C17_OrphansAtEntryNode ==
  /\ OrphansAreParentless
  /\ pc = "done" /\ morphology # Null =>
       LET kids == NonSomaTypedChildren(firstValidNode[1])
           orphans == {S \in Sections : S.id \in OrphanIdsOf(morphology[1])}
       IN /\ Cardinality(orphans) = Len(kids)
          /\ \A c \in SeqToSet(kids) : Cardinality({S \in orphans : StartedAt(S, c)}) = 1

-----------------------------------------------------------------------------
(* C18 *)

\* no record of the text is soma-typed, some record is the child of another,
\* and no parent linkage is broken
NoSomaWithChild(t) ==
  /\ ~BrokenLinkage(t)
  /\ \A k \in 1..Len(t) : t[k].kind = "data" => ~SomaTyped(t[k])
  /\ \E j, k \in 1..Len(t) :
       t[j].kind = "data" /\ t[k].kind = "data" /\ t[k].parentId = t[j].id

\* the parse completed with sections and without soma, the sections without
\* parent rooted at the entry node
SectionsWithoutSoma ==
  /\ pc = "done"
  /\ morphology # Null
  /\ morphology[1].soma = Null
  /\ DOMAIN morphology[1].sections # {}
  /\ firstValidNode # Null
  /\ \A S \in Sections : S.parent = Null => NodeOfPoint(S.points[1]) = firstValidNode[1]

\* the same for the texts without dropped lines
NoSomaValidTextGivesSections ==
  Ended /\ NoSomaWithChild(text) /\ ProducerInvariant(text) => SectionsWithoutSoma

\* C18: the parse of an input without soma-typed point in which some node has
\* a child completes, with getSoma() null and a non-empty section list
C18_NoSomaStillSections ==
  Ended /\ NoSomaWithChild(text) => SectionsWithoutSoma

-----------------------------------------------------------------------------
(* C19 *)

\* a text without accepted line, or of non-soma points none of which has a
\* child
NothingToBuild(t) ==
  \/ \A k \in 1..Len(t) : t[k].kind # "data"
  \/ /\ ProducerInvariant(t)
     /\ \A k \in 1..Len(t) : ~SomaTyped(t[k]) /\ t[k].parentId = NO_PARENT

-----------------------------------------------------------------------------
(* C20 *)

\* the input gives a soma: it has a soma-typed point
SomaProduced == \E n \in DOMAIN nodes : SomaTyped(nodes[n])

\* the input gives a section
SectionProduced == sections # <<>>

\* what holds of the fields of the collection: the raw morphology is null
\* exactly when _rawSoma and _rawSections both are, and holds them otherwise
RawMorphologyFollowsFields ==
  pc = "done" =>
    /\ rawMorphology = Null <=> (rawSoma = Null /\ rawSections = Null)
    /\ rawMorphology # Null =>
         /\ rawMorphology[1] = [soma |-> rawSoma, sections |-> rawSections]
         /\ morphology # Null

-----------------------------------------------------------------------------
(* C21 *)

\* C21: getNumberOfSections() returns a number, the count of the sections
\* stored in the morphology, which is the length of getArrayOfSections()
C21_NumberOfSections ==
  returned.call = "getNumberOfSections" =>
    returned.value = NumberValue(Len(getArrayOfSections(model, born)))

-----------------------------------------------------------------------------
(* C22 *)

\* the accepted lines of a text, in file order
AcceptedLines(t) == SelectSeq(t, RowAccepted)

\* C22: extractPoints returns the dense sequence of the accepted records: as
\* long as the text has lines of at least 7 tokens, a record at every
\* position, in file order, wherever the dropped lines stand
C22_ExtractPointsDense ==
  pc # "idle" =>
    /\ Len(rawPoints) = Len(AcceptedLines(text))
    /\ \A i \in 1..Len(rawPoints) : rawPoints[i] # Undefined
    /\ rawPoints = [k \in 1..Len(AcceptedLines(text)) |-> Some(PointOf(AcceptedLines(text)[k]))]

-----------------------------------------------------------------------------
(* C23 *)

RECURSIVE ReachesRoot(_, _)
\* following getParent() from the node `id` comes to a node without parent in
\* at most `fuel` steps
ReachesRoot(id, fuel) ==
  \/ nodes[id].parent = Null
  \/ /\ fuel > 0
     /\ nodes[id].parent[1] \in DOMAIN nodes
     /\ ReachesRoot(nodes[id].parent[1], fuel - 1)

\* a record of the text names itself as its parent
HasSelfParent(t) == \E k \in 1..Len(t) : t[k].kind = "data" /\ t[k].parentId = t[k].id

\* _initCollection has returned without failure
CollectionBuilt == pc \in {"search", "stack", "objects", "done"}

\* C23: once the node graph is built without failure the parent links form a
\* forest: from every node the parent links lead to a node without parent,
\* and no node is its own parent or ancestor, whatever the records, a record
\* whose parentId is its own id included
C23_ParentLinksForest ==
  CollectionBuilt =>
    \A id \in DOMAIN nodes :
      /\ ReachesRoot(id, Cardinality(DOMAIN nodes))
      /\ nodes[id].parent # Some(id)

\* without such a record the parent links do form a forest
ForestWithoutSelfParent ==
  CollectionBuilt /\ ~HasSelfParent(text) =>
    \A id \in DOMAIN nodes : ReachesRoot(id, Cardinality(DOMAIN nodes))

-----------------------------------------------------------------------------
(* C24 *)

\* the node a section ends at
EndNode(s) == NodeOfPoint(Last(s.points))

\* the section that a section names as its parent
ParentSection(s) == sections[s.parent[1] + 1]

\* what the zeroing leaves alone: every node keeps the radius of its record,
\* and every point but the first of a parentless section has the radius of
\* the node it was taken from
RadiusFrame ==
  /\ \A id \in DOMAIN nodes :
       \E k \in 1..Len(text) :
         text[k].kind = "data" /\ text[k].id = id /\ text[k].radius = nodes[id].radius
  /\ \A s \in Sections : \A k \in 1..Len(s.points) :
       k > 1 \/ s.parent # Null => s.points[k].radius = nodes[NodeOfPoint(s.points[k])].radius

\* C24, as claimed: the first radius of a section is 0 exactly when the
\* section has no parent; that of a section with a parent is the radius of the
\* node that ends the parent section; nothing else is changed by the zeroing
C24_FirstRadiusZeroIffParentless ==
  /\ \A s \in Sections :
       /\ s.points[1].radius = 0 <=> s.parent = Null
       /\ s.parent # Null => s.points[1].radius = nodes[EndNode(ParentSection(s))].radius
  /\ RadiusFrame

\* C24, as amended: the first radius of a section without parent is 0; that
\* of a section with a parent is the radius of the node that ends the parent
\* section, which is the first node of the section, be it 0 or not; nothing
\* else is changed by the zeroing
C24_FirstRadius ==
  /\ \A s \in Sections :
       /\ s.parent = Null => s.points[1].radius = 0
       /\ s.parent # Null =>
            /\ NodeOfPoint(s.points[1]) = EndNode(ParentSection(s))
            /\ s.points[1].radius = nodes[EndNode(ParentSection(s))].radius
  /\ RadiusFrame

\* two sections without parent that share their first node, of radius 5 on
\* the node and 0 in both, and a section with a parent whose first radius is
\* that of the node
C24_Witness ==
  /\ pc = "done"
  /\ \E s1, s2 \in Sections :
       /\ s1.id # s2.id /\ s1.parent = Null /\ s2.parent = Null
       /\ s1.points[1].position = s2.points[1].position
       /\ nodes[NodeOfPoint(s1.points[1])].radius > 0
       /\ s1.points[1].radius = 0 /\ s2.points[1].radius = 0
  /\ \E s \in Sections : s.parent # Null /\ s.points[1].radius > 0

-----------------------------------------------------------------------------
(* C25 *)

\* the node a raw section was started at: its first point after the point of
\* continuity
StartNode(raw) == NodeOfPoint(raw.points[2])

\* getTypevalue() of the Section of the Morphology built from `raw`
TypevalueOf(raw) == morphology[1].sections[raw.id].typevalue

\* C25: every section of the Morphology built by a parse has, as its
\* getTypevalue(), the type code of its start node, whatever code a non-soma
\* point carries, 0 included
C25_TypevalueOfStartNode ==
  pc = "done" /\ morphology # Null =>
    \A raw \in Sections :
      ~SomaTyped(nodes[StartNode(raw)]) => TypevalueOf(raw) = Some(nodes[StartNode(raw)].type)

\* for every code but 0 the Section has the type code of the start node
TypevalueOfNonZeroType ==
  pc = "done" /\ morphology # Null =>
    \A raw \in Sections :
      /\ raw.typevalue = nodes[StartNode(raw)].type
      /\ raw.typevalue # 0 => TypevalueOf(raw) = Some(raw.typevalue)
      /\ raw.typevalue = 0 => TypevalueOf(raw) = Null

-----------------------------------------------------------------------------
(* C26 *)

\* the running or last parse call has not come to the end of a parse that
\* made a soma or a section
NoResult ==
  \/ pc \in {"collection", "search", "stack", "objects", "failed", "hang"}
  \/ pc = "done" /\ rawSoma = Null /\ rawSections = Null

\* C26: a parse call discards the result of the call before it as a whole:
\* when a call made on an instance that held a morphology fails or makes
\* nothing, getMorphology() and getRawMorphology() are both null afterwards,
\* and they are null as long as the call is running
C26_ParseDiscardsPrevious ==
  hadMorphology /\ NoResult => morphology = Null /\ rawMorphology = Null

\* a second parse call that failed after it had built nodes, and one that
\* completed with nothing, on an instance that held a morphology
C26_Witness ==
  /\ hadMorphology /\ calls = 2
  /\ morphology = Null /\ rawMorphology = Null
  /\ \/ pc = "failed" /\ firstValidNode # Null
     \/ pc = "done" /\ DOMAIN nodes # {}

-----------------------------------------------------------------------------
(* C27 *)

\* C27: at every step of the work-stack loop the sections built so far have
\* the ids 0..n-1, each once, the section at position i of the list has the
\* id i, and a parent id carried by an element of the stack names a section
\* that is in the list
C27_SequentialIds ==
  /\ Len(sections) = currentSectionId
  /\ \A k \in 1..Len(sections) : sections[k].id = k - 1
  /\ {S.id : S \in Sections} = 0..(Len(sections) - 1)
  /\ \A k \in 1..Len(stack) :
       stack[k].parentSectionId # Null =>
         stack[k].parentSectionId[1] \in {S.id : S \in Sections}

\* in the loop, with two sections built, an element of the stack that waits
\* under the first of them and one that waits without parent section
C27_Witness ==
  /\ pc = "stack"
  /\ Len(sections) >= 2
  /\ \E j, k \in 1..Len(stack) :
       /\ stack[j].parentSectionId = Null
       /\ stack[k].parentSectionId = Some(0)

-----------------------------------------------------------------------------
(* C28 *)

\* the node of the k-th point of a section
PointNode(S, k) == NodeOfPoint(S.points[k])

\* consecutive points come from a node and one of its children
LinkedPoints(S) ==
  \A k \in 1..(Len(S.points) - 1) :
    /\ nodes[PointNode(S, k + 1)].parent = Some(PointNode(S, k))
    /\ \E c \in 1..Len(nodes[PointNode(S, k)].children) :
         nodes[PointNode(S, k)].children[c] = PointNode(S, k + 1)

\* the walk stops at a node with this list of children to go on with
StopsAt(N, kids) ==
  \/ Len(kids) = 0
  \/ Len(kids) >= 2
  \/ Len(kids) = 1 /\ nodes[kids[1]].type # nodes[N].type

\* C28: every section has at least two points, its consecutive points come
\* from nodes linked parent to child, every point after the first comes from
\* a non-soma node of the type of the section, and its last node is a leaf, a
\* fork of two or more non-soma children, or a node whose only non-soma child
\* is of another type
C28_SectionShape ==
  \A S \in Sections :
    /\ Len(S.points) >= 2
    /\ LinkedPoints(S)
    /\ \A k \in 2..Len(S.points) :
         ~SomaTyped(nodes[PointNode(S, k)]) /\ nodes[PointNode(S, k)].type = S.typevalue
    /\ StopsAt(EndNode(S), NonSomaTypedChildren(EndNode(S)))

\* the shape that the sections do have: with the children of every type in
\* the place of the non-soma children, and points of every type
SectionShapeOfAllChildren ==
  \A S \in Sections :
    /\ Len(S.points) >= 2
    /\ LinkedPoints(S)
    /\ \A k \in 2..Len(S.points) : nodes[PointNode(S, k)].type = S.typevalue
    /\ StopsAt(EndNode(S), nodes[EndNode(S)].children)

-----------------------------------------------------------------------------
(* C29 *)

\* the soma-typed records of the text, in file order
SomaLines == SelectSeq(AcceptedLines(text), SomaTyped)

\* C29: after a parse that completes on a text with a soma-typed point the
\* soma record has the id 0, the largest radius of the soma-typed points and
\* their positions in file order, and Soma.getCenter() is the point itself
\* when there is one
C29_SomaRecord ==
  pc = "done" /\ Len(SomaLines) > 0 =>
    /\ rawSoma # Null
    /\ rawSoma[1].id = 0
    /\ rawSoma[1].radius = MaxOf([k \in 1..Len(SomaLines) |-> SomaLines[k].radius])
    /\ rawSoma[1].points = [k \in 1..Len(SomaLines) |-> [position |-> SomaLines[k].position]]
    /\ morphology # Null /\ morphology[1].soma # Null
    /\ Len(SomaLines) = 1 =>
         getCenter(morphology[1].soma[1]) = Some([sum |-> SomaLines[1].position, over |-> 1])

-----------------------------------------------------------------------------
(* C30 *)

\* no section of the morphology is its own parent or its own child, and no
\* children list holds an id twice
NoSelfLinkNoDouble(m) ==
  \A id \in DOMAIN m.sections :
    LET s == m.sections[id]
    IN /\ s.parent # Some(s.id)
       /\ \A k \in 1..Len(s.children) : s.children[k] # s.id
       /\ \A j, k \in 1..Len(s.children) : s.children[j] = s.children[k] => j = k

\* setParent called with the section itself returns false and leaves the
\* parent as it was
SelfParentRefused ==
  returned'.call = "setParent" /\ returned'.section = returned'.parent =>
    /\ returned'.value = FALSE
    /\ model'.sections[returned'.section].parent = model.sections[returned'.section].parent

\* addChild returns false for a candidate of the id of the section, and only
\* then; a child returned true for is in the list, once, and the list of a
\* section that had it, or that was refused, is as it was
AddChildAnswers ==
  returned'.call = "addChild" =>
    LET before == model.sections[returned'.section].children
        after == model'.sections[returned'.section].children
        c == returned'.child
    IN /\ returned'.value = (c # returned'.section)
       /\ returned'.value => c \in SeqToSet(after)
       /\ c \in SeqToSet(before) \/ ~returned'.value => after = before
       /\ c \notin SeqToSet(before) /\ returned'.value => after = Append(before, c)

\* C30: under every sequence of setParent and addChild calls no section is
\* its own parent or child and no children list holds an id twice; setParent
\* with the section itself returns false and changes nothing; addChild
\* returns true for a child added or already there, false only for a
\* candidate of the section's own id
C30_SectionLinks ==
  [][NoSelfLinkNoDouble(model') /\ SelfParentRefused /\ AddChildAnswers]_vars

\* a section with a parent has refused itself as its parent, in a morphology
\* where section 0 was given section 1 as a child and section 1 section 0
C30_Witness ==
  /\ returned.call = "setParent" /\ returned.section = returned.parent
  /\ returned.value = FALSE
  /\ model.sections[returned.section].parent # Null
  /\ 1 \in DOMAIN model.sections
  /\ model.sections[0].children = <<1>>
  /\ model.sections[1].children = <<0>>

====
